---- MODULE Spec2Model ----
(***************************************************************************)
(* Receipt checker: backend/bot.py (Telegram handler handle_photo) and     *)
(* backend/telebirr.py (extract_transaction_info, process_image_for_txid,  *)
(* verify_telebirr_receipt).                                               *)
(*                                                                         *)
(* A python str is a sequence of one-character strings.  None is a value   *)
(* that is no str.  An image is identified with what the OCR backend       *)
(* returns for it (the backend is a deterministic black box).              *)
(***************************************************************************)
EXTENDS Integers, Sequences, FiniteSets, TLC

\* ------------------------------------------------------------------ bounds
MaxLen == 2          \* longest OCR word that follows the label
MaxRem == 3          \* longest text that follows the label
MaxPages == 2        \* most pages of an OCR document
MaxBlocks == 2       \* most blocks of a page
MaxLines == 2        \* most lines of a block

\* ------------------------------------------------------- python str model
None == << "<None>" >>

Truthy(x) == x # None /\ x # << >>

Uppers == << "A","B","C","D","E","F","G","H","I","J","K","L","M",
             "N","O","P","Q","R","S","T","U","V","W","X","Y","Z" >>

Lowers == << "a","b","c","d","e","f","g","h","i","j","k","l","m",
             "n","o","p","q","r","s","t","u","v","w","x","y","z" >>

\* the lower-case letter of each upper-case letter, and the converse
LowerOf ==
    [c \in { Uppers[i] : i \in 1..Len(Uppers) } |->
        Lowers[CHOOSE i \in 1..Len(Uppers) : Uppers[i] = c]]

UpperOf ==
    [c \in { Lowers[i] : i \in 1..Len(Lowers) } |->
        Uppers[CHOOSE i \in 1..Len(Lowers) : Lowers[i] = c]]

LowerChar(c) == IF c \in DOMAIN LowerOf THEN LowerOf[c] ELSE c

UpperChar(c) == IF c \in DOMAIN UpperOf THEN UpperOf[c] ELSE c

\* str.lower() / str.upper()
Lower(s) == [i \in 1..Len(s) |-> LowerChar(s[i])]

Upper_missing(s) == s

Upper(s) == [i \in 1..Len(s) |-> UpperChar(s[i])]

\* characters str.strip() and str.split() treat as whitespace
IsSpace(c) == c \in {" ", "\n", "\t"}

\* `c in s` for a one-character c
Contains(s, c) == \E i \in 1..Len(s) : s[i] = c

\* s.replace(a, b) for one-character a and b
Replace(s, a, b) == [i \in 1..Len(s) |-> IF s[i] = a THEN b ELSE s[i]]

\* s.replace(':', '')
RemoveColons(s) == SelectSeq(s, LAMBDA c : c # ":")

\* s.find(sub): 0-based index of the first occurrence, -1 when absent
Find(s, sub) ==
    LET hits == { i \in 0..(Len(s) - Len(sub)) :
                    SubSeq(s, i + 1, i + Len(sub)) = sub }
    IN  IF hits = {} THEN -1
        ELSE CHOOSE i \in hits : \A j \in hits : i <= j

\* s.strip()
Strip(s) ==
    LET keep == { i \in 1..Len(s) : ~IsSpace(s[i]) }
    IN  IF keep = {} THEN << >>
        ELSE LET lo == CHOOSE i \in keep : \A j \in keep : i <= j
                 hi == CHOOSE i \in keep : \A j \in keep : j <= i
             IN  SubSeq(s, lo, hi)

\* s.split(): the whitespace-delimited tokens of s, in order
RECURSIVE Split(_)
Split(s) ==
    LET keep == { i \in 1..Len(s) : ~IsSpace(s[i]) }
    IN  IF keep = {} THEN << >>
        ELSE LET lo == CHOOSE i \in keep : \A j \in keep : i <= j
                 ends == { i \in lo..Len(s) : i = Len(s) \/ IsSpace(s[i + 1]) }
                 hi == CHOOSE i \in ends : \A j \in ends : i <= j
             IN  << SubSeq(s, lo, hi) >> \o Split(SubSeq(s, hi + 1, Len(s)))

\* sep.join(words)
RECURSIVE Join(_, _)
Join(words, sep) ==
    IF words = << >> THEN << >>
    ELSE IF Len(words) = 1 THEN words[1]
    ELSE words[1] \o sep \o Join(Tail(words), sep)

\* ----------------------------------------------- extract_transaction_info
label == << "T","r","a","n","s","a","c","t","i","o","n"," ",
            "N","u","m","b","e","r" >>

\* an exception that leaves the function
Raises == << "<raises>" >>

index_error_uncaught == Raises

\* remainder.split()[0] raised IndexError: the except clause logs a warning
\* and control reaches the final return of None
index_error_caught == None

extract_transaction_info_split_first(text_data) ==
    LET start_index == Find(Lower(text_data), Lower(label))
        end_of_label == start_index + Len(label)
        tokens == Split(SubSeq(text_data, end_of_label + 1, Len(text_data)))
    IN  IF start_index = -1 THEN None
        ELSE IF tokens = << >> THEN None
        ELSE Upper(RemoveColons(tokens[1]))

\* bot.extract_transaction_info, second component of the returned triple
extract_transaction_info(text_data) ==
    LET text_data_lower == Lower(text_data)
        start_index == Find(text_data_lower, Lower(label))
        end_of_label == start_index + Len(label)
        remainder == RemoveColons(Strip(SubSeq(text_data, end_of_label + 1,
                                               Len(text_data))))
    IN  IF start_index = -1 THEN None
        ELSE IF remainder = << >> THEN None
        ELSE IF Split(remainder) = << >> THEN index_error_caught
        ELSE Upper(Split(remainder)[1])

\* telebirr.extract_transaction_info, the returned tx_id
telebirr_extract_transaction_info(text_data) ==
    LET text_data_lower == Lower(text_data)
        start_index == Find(text_data_lower, Lower(label))
        end_of_label == start_index + Len(label)
        remainder == RemoveColons(Strip(SubSeq(text_data, end_of_label + 1,
                                               Len(text_data))))
    IN  IF start_index = -1 THEN None
        ELSE IF remainder = << >> THEN None
        ELSE IF Split(remainder) = << >> THEN None
        ELSE Upper(Split(remainder)[1])

\* ------------------------------------------------- process_image_for_txid
\* text of one OCR line: " ".join(word.value for word in line.words) + "\n"
LineText(line) == Join(line, << " " >>) \o << "\n" >>

RECURSIVE BlockText_prepend(_)
BlockText_prepend(block) ==
    IF block = << >> THEN << >>
    ELSE BlockText_prepend(Tail(block)) \o LineText(Head(block))

RECURSIVE BlockText(_)
BlockText(block) ==
    IF block = << >> THEN << >>
    ELSE LineText(Head(block)) \o BlockText(Tail(block))

RECURSIVE PageText(_)
PageText(page) ==
    IF page = << >> THEN << >>
    ELSE BlockText(Head(page)) \o PageText(Tail(page))

RECURSIVE FullText(_)
FullText(pages) ==
    IF pages = << >> THEN << >>
    ELSE PageText(Head(pages)) \o FullText(Tail(pages))

\* what the OCR backend does with an image file
OcrRaises == [kind |-> "raises", pages |-> << >>]

\* the backend returns a falsy result
OcrNoResult == [kind |-> "none", pages |-> << >>]

OcrNoPages == [kind |-> "result", pages |-> << >>]

OcrDoc(pages) == [kind |-> "result", pages |-> pages]

\* an absent file: DocumentFile.from_images raises
NoFile == [kind |-> "absent", pages |-> << >>]

process_image_for_txid_uncaught(content) ==
    IF content.kind \in {"raises", "absent"} THEN Raises
    ELSE IF content.kind # "result" THEN None
    ELSE IF content.pages = << >> THEN None
    ELSE IF Strip(FullText(content.pages)) = << >> THEN None
    ELSE extract_transaction_info(FullText(content.pages))

\* tx_id returned by process_image_for_txid for the content of the file
process_image_for_txid(content) ==
    IF content.kind # "result" THEN None
    ELSE IF content.pages = << >> THEN None
    ELSE IF Strip(FullText(content.pages)) = << >> THEN None
    ELSE extract_transaction_info(FullText(content.pages))

\* tx_id returned by telebirr.process_image_for_txid for the same content
telebirr_process_image_for_txid(content) ==
    IF content.kind # "result" THEN None
    ELSE IF content.pages = << >> THEN None
    ELSE IF Strip(FullText(content.pages)) = << >> THEN None
    ELSE telebirr_extract_transaction_info(FullText(content.pages))

\* ------------------------------------------------------------ environment
\* characters of the OCR word that follows the label
TokenChars == {"a", "O", "0", ":"}

Tokens == UNION { [1..n -> TokenChars] : n \in 1..MaxLen }

LabelWords == << SubSeq(label, 1, 11), SubSeq(label, 13, 18) \o << ":" >> >>

OnePage(line) == OcrDoc(<< << << line >> >> >>)

\* the photos a user may send
Images ==
    {OcrRaises, OcrNoResult, OcrNoPages, OnePage(<< >>), OnePage(LabelWords),
     OnePage(<< SubSeq(label, 1, 11) >>)}
    \cup { OnePage(LabelWords \o << w >>) : w \in Tokens }

FileIds == {"f1", "f2"}

Photos == [file_id : FileIds, content : Images]

\* file_path = f'downloads/{photo_file.file_id}.jpg'
FilePath(fid) == << "downloads/", fid, ".jpg" >>

Paths == { FilePath(f) : f \in FileIds }

\* what requests.get(url, timeout=10) does: it returns a response with a
\* status code and a body, or raises a RequestException (timeout, connection
\* failure), or raises some other exception
Responses ==
    [kind : {"response"}, status_code : {200, 404}, marker : BOOLEAN]
    \cup {[kind |-> "RequestException", status_code |-> 0, marker |-> FALSE],
          [kind |-> "Exception", status_code |-> 0, marker |-> FALSE]}

Runs == {1, 2}

\* texts handed to extract_transaction_info: something before the label,
\* the label in some spelling or a text that is not the label, what follows
\* it, and possibly a second occurrence of the label
ExtractChars == {"a", "B", ":", " ", "\n"}

Remainders == UNION { [1..n -> ExtractChars] : n \in 0..MaxRem }

LabelSpellings ==
    {label, Lower(label), Upper(label), SubSeq(label, 1, Len(label) - 1)}

InputTexts ==
    { before \o spelling \o rem \o after :
        before \in {<< >>, << "a", ":", " " >>},
        spelling \in LabelSpellings,
        rem \in Remainders,
        after \in {<< >>, << " " >> \o label \o << " ", "B" >>} }

\* a result that has not been computed yet
Pending == << "<pending>" >>

\* OCR documents handed to the linearization loop of process_image_for_txid:
\* pages of blocks of lines of words
SeqsUpTo(S, n) == UNION { [1..k -> S] : k \in 0..n }

OcrLines == { << << "a" >> >>, << << "b", "c" >>, << "d" >> >>, << >> }

OcrBlocks == SeqsUpTo(OcrLines, MaxLines)

\* a few pages that differ from each other: no block, one block, two blocks
OcrPages ==
    { << >>,
      << << << << "a" >> >> >> >>,
      << << << << "b", "c" >>, << "d" >> >> >>,
         << << << "a" >> >>, << >> >> >> }

\* documents of one page with any blocks, and of several pages
Documents ==
    { << page >> : page \in SeqsUpTo(OcrBlocks, MaxBlocks) }
    \cup SeqsUpTo(OcrPages, MaxPages)

\* ------------------------------------------------------------------ state
VARIABLES
    photo,     \* photo[r]: the photo of submission r (file id and image)
    files,     \* files[p]: content of the file at path p, NoFile when absent
    pc,        \* pc[r]: where run r of handle_photo stands
    tx_id,     \* tx_id[r]: handle_photo's local tx_id
    reqs,      \* reqs[r]: identifiers run r has requested, in order
    script,    \* script[r][k]: the endpoint's answer to the k-th request of
               \* a verification of submission r
    msgs,      \* msgs[r]: messages run r has sent to the user, in order
    verify_tx_id,  \* the tx_id argument of verify_telebirr_receipt
    vpc,       \* where the call of verify_telebirr_receipt stands
    vreqs,     \* identifiers verify_telebirr_receipt has requested
    vresult,   \* its result: "pending", "True", "False" or "raised"
    ocr_text,  \* the text handed to extract_transaction_info
    bot_result,       \* what bot.extract_transaction_info returned for it
    telebirr_result,  \* what telebirr.extract_transaction_info returned
    document,  \* result.pages handed to the linearization loop
    full_text  \* the full_text the loop has built

vars == << photo, files, pc, tx_id, reqs, script, msgs,
           verify_tx_id, vpc, vreqs, vresult,
           ocr_text, bot_result, telebirr_result, document, full_text >>

botvars == << pc, tx_id, reqs, msgs >>

verifyvars == << verify_tx_id, vpc, vreqs, vresult >>

extractvars == << ocr_text, bot_result, telebirr_result, document, full_text >>

file_path(r) == FilePath(photo[r].file_id)

\* the answer to the k-th request of a verification of submission r
Answers(r, k) ==
    IF k <= Len(script[r]) THEN {script[r][k]} ELSE Responses

Record(r, k, resp) ==
    IF k <= Len(script[r]) THEN script
    ELSE [script EXCEPT ![r] = Append(@, resp)]

Message(text, arg) == [text |-> text, arg |-> arg]

\* ------------------------------------------------------- bot.handle_photo
success_check_status_only(resp) ==
    resp.kind = "response" /\ resp.status_code = 200

\* response.status_code == 200 and success_string in response.text
success_check(resp) ==
    resp.kind = "response" /\ resp.status_code = 200 /\ resp.marker

normalize_O0_discarded(tx) == tx

\* tx_id.replace('O', '0')
normalize_O0(tx) == Replace(tx, "O", "0")

normalize_0O_both(tx) ==
    [i \in 1..Len(tx) |-> IF tx[i] = "O" THEN "0"
                          ELSE IF tx[i] = "0" THEN "O" ELSE tx[i]]

\* tx_id.replace('0', 'O')
normalize_0O(tx) == Replace(tx, "0", "O")

after_raw_swapped(tx) ==
    IF Contains(tx, "0") THEN "req_0O"
    ELSE IF Contains(tx, "O") THEN "req_O0"
    ELSE "reply_not_verified"

after_raw_unconditional(tx) == "req_O0"

\* where handle_photo goes when the raw attempt is rejected
after_raw(tx) ==
    IF Contains(tx, "O") THEN "req_O0"
    ELSE IF Contains(tx, "0") THEN "req_0O"
    ELSE "reply_not_verified"

after_O0_elif(tx) == "reply_not_verified"

\* where handle_photo goes when the 'O'->'0' attempt is rejected
after_O0(tx) ==
    IF Contains(tx, "0") THEN "req_0O" ELSE "reply_not_verified"

\* get_file, makedirs, download_to_drive
Download(r) ==
    /\ pc[r] = "start"
    /\ files' = [files EXCEPT ![file_path(r)] = photo[r].content]
    /\ pc' = [pc EXCEPT ![r] = "reply_processing"]
    /\ UNCHANGED << extractvars, photo, tx_id, reqs, script, msgs, verifyvars >>

\* await update.message.reply_text(...): the message is sent, or the call
\* raises and the exception leaves handle_photo
Reply(r, from, text, arg, to) ==
    /\ pc[r] = from
    /\ \/ /\ msgs' = [msgs EXCEPT ![r] = Append(@, Message(text, arg))]
          /\ pc' = [pc EXCEPT ![r] = to]
       \/ /\ pc' = [pc EXCEPT ![r] = "crashed"]
          /\ UNCHANGED msgs
    /\ UNCHANGED << extractvars, photo, files, tx_id, reqs, script, verifyvars >>

ReplyProcessing(r) ==
    Reply(r, "reply_processing", "Processing", << >>, "ocr")

\* bank_name, tx_id, verify_url = await process_image_for_txid(file_path)
Ocr(r) ==
    /\ pc[r] = "ocr"
    /\ LET id == process_image_for_txid(files[file_path(r)])
       IN  /\ tx_id' = [tx_id EXCEPT ![r] = id]
           /\ pc' = [pc EXCEPT ![r] =
                        IF Truthy(id) THEN "req_raw" ELSE "reply_no_tx_id"]
    /\ UNCHANGED << extractvars, photo, files, reqs, script, msgs, verifyvars >>

Request_fallthrough(r, from, id, accepted, rejected) ==
    /\ pc[r] = from
    /\ \E resp \in Answers(r, Len(reqs[r]) + 1) :
          /\ script' = Record(r, Len(reqs[r]) + 1, resp)
          /\ pc' = [pc EXCEPT ![r] =
                       IF resp.kind = "Exception" THEN "crashed"
                       ELSE IF success_check(resp) THEN accepted
                       ELSE rejected]
    /\ reqs' = [reqs EXCEPT ![r] = Append(@, id)]
    /\ UNCHANGED << extractvars, photo, files, tx_id, msgs, verifyvars >>

\* one requests.get of handle_photo and the test of its response
Request(r, from, id, accepted, rejected) ==
    /\ pc[r] = from
    /\ \E resp \in Answers(r, Len(reqs[r]) + 1) :
          /\ script' = Record(r, Len(reqs[r]) + 1, resp)
          /\ pc' = [pc EXCEPT ![r] =
                       IF resp.kind = "Exception" THEN "crashed"
                       ELSE IF resp.kind = "RequestException"
                            THEN "reply_error"
                       ELSE IF success_check(resp) THEN accepted
                       ELSE rejected]
    /\ reqs' = [reqs EXCEPT ![r] = Append(@, id)]
    /\ UNCHANGED << extractvars, photo, files, tx_id, msgs, verifyvars >>

RequestRaw(r) ==
    Request(r, "req_raw", tx_id[r], "reply_valid", after_raw(tx_id[r]))

RequestO0_no_return(r) ==
    Request(r, "req_O0", normalize_O0(tx_id[r]), after_O0(tx_id[r]),
            after_O0(tx_id[r]))

RequestO0(r) ==
    Request(r, "req_O0", normalize_O0(tx_id[r]), "reply_valid_O0",
            after_O0(tx_id[r]))

Request0O(r) ==
    Request(r, "req_0O", normalize_0O(tx_id[r]), "reply_valid_0O",
            "reply_not_verified")

ReplyValid(r) == Reply(r, "reply_valid", "Valid", << >>, "reply_url")

ReplyUrl(r) == Reply(r, "reply_url", "ViewUrl", tx_id[r], "remove")

ReplyValidO0(r) ==
    Reply(r, "reply_valid_O0", "ValidO0", << >>, "reply_url_O0")

ReplyUrlO0(r) ==
    Reply(r, "reply_url_O0", "ViewUrl", normalize_O0(tx_id[r]), "remove_O0")

ReplyValid0O(r) ==
    Reply(r, "reply_valid_0O", "Valid0O", << >>, "reply_url_0O")

ReplyUrl0O(r) ==
    Reply(r, "reply_url_0O", "ViewUrl", normalize_0O(tx_id[r]), "remove_0O")

ReplyNotVerified(r) ==
    Reply(r, "reply_not_verified", "NotVerified", << >>, "remove")

ReplyError(r) == Reply(r, "reply_error", "HttpError", << >>, "remove")

ReplyNoTxId(r) == Reply(r, "reply_no_tx_id", "NoTxId", << >>, "remove")

\* if os.path.exists(file_path): os.remove(file_path), then return
Remove(r, from) ==
    /\ pc[r] = from
    /\ files' = [files EXCEPT ![file_path(r)] = NoFile]
    /\ pc' = [pc EXCEPT ![r] = "done"]
    /\ UNCHANGED << extractvars, photo, tx_id, reqs, script, msgs, verifyvars >>

RemoveO0(r) == Remove(r, "remove_O0")

Remove0O(r) == Remove(r, "remove_0O")

RemoveEnd(r) == Remove(r, "remove")

handle_photo(r) ==
    \/ Download(r)
    \/ ReplyProcessing(r)
    \/ Ocr(r)
    \/ RequestRaw(r)
    \/ ReplyValid(r)
    \/ ReplyUrl(r)
    \/ RequestO0(r)
    \/ ReplyValidO0(r)
    \/ ReplyUrlO0(r)
    \/ RemoveO0(r)
    \/ Request0O(r)
    \/ ReplyValid0O(r)
    \/ ReplyUrl0O(r)
    \/ Remove0O(r)
    \/ ReplyNotVerified(r)
    \/ ReplyError(r)
    \/ ReplyNoTxId(r)
    \/ RemoveEnd(r)

\* ---------------------------------------- telebirr.verify_telebirr_receipt
\* response.status_code == 200 and SUCCESS_STRING in response.text
verify_success_check(resp) ==
    resp.kind = "response" /\ resp.status_code = 200 /\ resp.marker

\* where verify_telebirr_receipt goes when the raw attempt is rejected
verify_after_raw(tx) ==
    IF Contains(tx, "O") THEN "req_O0"
    ELSE IF Contains(tx, "0") THEN "req_0O"
    ELSE "done"

verify_after_O0_elif(tx) == "done"

\* where it goes when the 'O'->'0' attempt is rejected
verify_after_O0(tx) ==
    IF Contains(tx, "0") THEN "req_0O" ELSE "done"

\* values returned when the raw, the 'O'->'0' and the '0'->'O' attempt succeeds
verify_return_raw == "True"

verify_return_O0 == "True"

verify_return_0O == "True"

\* value returned when every candidate was rejected
verify_not_verified == "False"

\* value returned after a RequestException
verify_on_error == "False"

\* one requests.get of verify_telebirr_receipt and the test of its response;
\* the function returns in the same step when the test decides the result
VerifyRequest(from, id, verified, rejected) ==
    /\ vpc = from
    /\ \E resp \in Answers(1, Len(vreqs) + 1) :
          /\ script' = Record(1, Len(vreqs) + 1, resp)
          /\ vpc' = IF resp.kind = "response" /\ ~verify_success_check(resp)
                    THEN rejected ELSE "done"
          /\ vresult' =
                IF resp.kind = "Exception" THEN "raised"
                ELSE IF resp.kind = "RequestException" THEN verify_on_error
                ELSE IF verify_success_check(resp) THEN verified
                ELSE IF rejected = "done" THEN verify_not_verified
                ELSE vresult
    /\ vreqs' = Append(vreqs, id)
    /\ UNCHANGED << extractvars, photo, files, botvars, verify_tx_id >>

VerifyRaw ==
    VerifyRequest("req_raw", verify_tx_id, verify_return_raw,
                  verify_after_raw(verify_tx_id))

VerifyO0 ==
    VerifyRequest("req_O0", Replace(verify_tx_id, "O", "0"),
                  verify_return_O0, verify_after_O0(verify_tx_id))

Verify0O ==
    VerifyRequest("req_0O", Replace(verify_tx_id, "0", "O"),
                  verify_return_0O, "done")

verify_telebirr_receipt == VerifyRaw \/ VerifyO0 \/ Verify0O

\* ---------------------------------------------------------- specifications
InitRuns(submitted) ==
    /\ files = [p \in Paths |-> NoFile]
    /\ pc = [r \in Runs |-> IF r \in submitted THEN "start" ELSE "idle"]
    /\ tx_id = [r \in Runs |-> None]
    /\ reqs = [r \in Runs |-> << >>]
    /\ script = [r \in Runs |-> << >>]
    /\ msgs = [r \in Runs |-> << >>]
    /\ vreqs = << >>
    /\ vresult = "pending"

\* no text is being parsed outside the handlers
NoText ==
    /\ ocr_text = << >>
    /\ bot_result = Pending
    /\ telebirr_result = Pending
    /\ document = << >>
    /\ full_text = Pending

\* one submission handled by handle_photo, and verify_telebirr_receipt
\* called against the same endpoint on the tx_id that
\* telebirr.process_image_for_txid returns for the same photo
Init ==
    /\ photo \in [{1} -> Photos]
    /\ InitRuns({1})
    /\ verify_tx_id = telebirr_process_image_for_txid(photo[1].content)
    /\ NoText
    /\ vpc = IF Truthy(verify_tx_id) THEN "req_raw" ELSE "idle"

Next == handle_photo(1) \/ verify_telebirr_receipt

Spec == Init /\ [][Next]_vars

\* two submissions handled concurrently; the same file id is the same image
ConcImages ==
    {OcrNoPages, OnePage(LabelWords \o << << "O", "0" >> >>)}

InitConc ==
    /\ photo \in [Runs -> [file_id : FileIds, content : ConcImages]]
    /\ photo[1].file_id = photo[2].file_id
          => photo[1].content = photo[2].content
    /\ InitRuns(Runs)
    /\ verify_tx_id = None
    /\ vpc = "idle"
    /\ NoText

NextConc == \E r \in Runs : handle_photo(r)

SpecConc == InitConc /\ [][NextConc]_vars

\* extract_transaction_info of either module applied to a text
NoHandler ==
    /\ photo = << >>
    /\ InitRuns({})
    /\ verify_tx_id = None
    /\ vpc = "idle"

handlervars == << photo, files, botvars, script, verifyvars >>

InitExtract ==
    /\ ocr_text \in InputTexts
    /\ bot_result = Pending
    /\ telebirr_result = Pending
    /\ document = << >>
    /\ full_text = Pending
    /\ NoHandler

BotExtract ==
    /\ bot_result = Pending
    /\ bot_result' = extract_transaction_info(ocr_text)
    /\ UNCHANGED << ocr_text, telebirr_result, document, full_text,
                    handlervars >>

TelebirrExtract ==
    /\ telebirr_result = Pending
    /\ telebirr_result' = telebirr_extract_transaction_info(ocr_text)
    /\ UNCHANGED << ocr_text, bot_result, document, full_text,
                    handlervars >>

NextExtract == BotExtract \/ TelebirrExtract

SpecExtract == InitExtract /\ [][NextExtract]_vars

\* the linearization loop of process_image_for_txid applied to a document
InitLinearize ==
    /\ document \in Documents
    /\ full_text = Pending
    /\ ocr_text = << >>
    /\ bot_result = Pending
    /\ telebirr_result = Pending
    /\ NoHandler

Linearize ==
    /\ full_text = Pending
    /\ full_text' = FullText(document)
    /\ UNCHANGED << document, ocr_text, bot_result, telebirr_result,
                    handlervars >>

NextLinearize == Linearize

SpecLinearize == InitLinearize /\ [][NextLinearize]_vars

\* ------------------------------------------------------------- vocabulary
\* run r of handle_photo has ended, by returning or by an exception
Terminal(r) == pc[r] \in {"done", "crashed"}

Range(s) == { s[i] : i \in 1..Len(s) }

IsPrefix(s, t) == Len(s) <= Len(t) /\ s = SubSeq(t, 1, Len(s))

HasBoth(tx) == Contains(tx, "O") /\ Contains(tx, "0")

\* the candidate list of the specification: raw, then the 'O'->'0' variant
\* when the raw contains 'O', then the '0'->'O' variant when it contains '0'
Candidates(tx) ==
    << tx >>
    \o (IF Contains(tx, "O") THEN << Replace(tx, "O", "0") >> ELSE << >>)
    \o (IF Contains(tx, "0") THEN << Replace(tx, "0", "O") >> ELSE << >>)

\* the identifier with 'O' and '0' exchanged at once
SwapBoth(tx) ==
    [i \in 1..Len(tx) |-> IF tx[i] = "O" THEN "0"
                          ELSE IF tx[i] = "0" THEN "O" ELSE tx[i]]

\* the endpoint answered status 200 with the success marker
Accepted(resp) ==
    resp.kind = "response" /\ resp.status_code = 200 /\ resp.marker

\* the endpoint answered, but not with status 200 and the marker
Rejected(resp) == resp.kind = "response" /\ ~Accepted(resp)

\* the attempt raised instead of returning a response
Raised(resp) == resp.kind # "response"

Texts(r) == { msgs[r][i].text : i \in 1..Len(msgs[r]) }

\* ------------------------------------------------------------------ claims

\* C1: the attempts of one verification are issued one at a time in the
\* fixed order raw, 'O'->'0' variant (only when the raw contains 'O'),
\* '0'->'O' variant (only when the raw contains '0'): what has been
\* requested so far is always an initial part of that candidate list, and
\* every request issued has been answered before the next one is issued.
C1_FixedOrder ==
    /\ IsPrefix(reqs[1], Candidates(tx_id[1]))
    /\ IsPrefix(vreqs, Candidates(verify_tx_id))
    /\ Len(reqs[1]) <= Len(script[1])
    /\ Len(vreqs) <= Len(script[1])

C1_Witness ==
    /\ pc[1] = "done" /\ vpc = "done"
    /\ Len(reqs[1]) = 3 /\ Len(vreqs) = 3
    /\ Accepted(script[1][3])

\* C2: every attempt but the last one of a verification was not a success:
\* once an attempt returns status 200 with the marker nothing more is
\* requested, so success on the raw means one request and success on the
\* 'O'->'0' variant means the '0'->'O' variant is not requested.
C2_ShortCircuit ==
    /\ \A k \in 1..(Len(reqs[1]) - 1) : ~Accepted(script[1][k])
    /\ \A k \in 1..(Len(vreqs) - 1) : ~Accepted(script[1][k])
    /\ (Terminal(1) /\ reqs[1] # << >> /\ Accepted(script[1][1]))
          => Len(reqs[1]) = 1
    /\ (vpc = "done" /\ Accepted(script[1][1])) => Len(vreqs) = 1

C2_Witness ==
    /\ pc[1] = "done" /\ vpc = "done"
    /\ HasBoth(tx_id[1])
    /\ Len(reqs[1]) = 2 /\ Len(vreqs) = 2
    /\ Accepted(script[1][2])
    /\ "ValidO0" \in Texts(1) /\ vresult = "True"

\* C3: an attempt that raises (RequestException or any other exception) is
\* the last attempt of its verification: no candidate is requested after it.
C3_ErrorTerminates ==
    /\ \A k \in 1..(Len(reqs[1]) - 1) : ~Raised(script[1][k])
    /\ \A k \in 1..(Len(vreqs) - 1) : ~Raised(script[1][k])

C3_Witness ==
    /\ pc[1] = "done" /\ vpc = "done"
    /\ HasBoth(tx_id[1])
    /\ Len(reqs[1]) = 2 /\ Len(vreqs) = 2
    /\ script[1][2].kind = "RequestException"
    /\ "HttpError" \in Texts(1)

\* C4: a verification that ended because an attempt raised a transport
\* error gives its caller an outcome other than the not-verified outcome:
\* handle_photo has not sent the not-verified message, and
\* verify_telebirr_receipt has not returned the not-verified value.
C4_TransportDistinct ==
    /\ (Terminal(1) /\ reqs[1] # << >>
          /\ script[1][Len(reqs[1])].kind = "RequestException")
          => "NotVerified" \notin Texts(1)
    /\ (vpc = "done" /\ script[1][Len(vreqs)].kind = "RequestException")
          => vresult # verify_not_verified

\* C5 as stated: for a raw identifier with both 'O' and '0' at most two
\* requests are made and the '0'->'O' variant is never requested.
C5_OnlyFirstSubstitution ==
    /\ HasBoth(tx_id[1])
          => /\ Len(reqs[1]) <= 2
             /\ Replace(tx_id[1], "0", "O") \notin Range(reqs[1])
    /\ HasBoth(verify_tx_id)
          => /\ Len(vreqs) <= 2
             /\ Replace(verify_tx_id, "0", "O") \notin Range(vreqs)

\* C5 amended: for a raw identifier with both 'O' and '0' the requests are
\* the raw, then the 'O'->'0' variant, then - only after the 'O'->'0'
\* attempt was answered and rejected - the '0'->'O' variant of the raw; the
\* identifier with both characters exchanged is never requested, and at
\* most three requests are made.
C5_BothCharsSequence ==
    /\ HasBoth(tx_id[1])
          => /\ IsPrefix(reqs[1], << tx_id[1], Replace(tx_id[1], "O", "0"),
                                    Replace(tx_id[1], "0", "O") >>)
             /\ Len(reqs[1]) = 3 => Rejected(script[1][2])
             /\ SwapBoth(tx_id[1]) \notin Range(reqs[1])
    /\ HasBoth(verify_tx_id)
          => /\ IsPrefix(vreqs, << verify_tx_id,
                                  Replace(verify_tx_id, "O", "0"),
                                  Replace(verify_tx_id, "0", "O") >>)
             /\ Len(vreqs) = 3 => Rejected(script[1][2])
             /\ SwapBoth(verify_tx_id) \notin Range(vreqs)

C5_Witness ==
    /\ HasBoth(tx_id[1])
    /\ pc[1] = "reply_valid_0O" /\ vpc = "done"
    /\ Len(reqs[1]) = 3 /\ Len(vreqs) = 3
    /\ reqs[1][3] = Replace(tx_id[1], "0", "O")
    /\ vresult = "True"

\* C6: when every attempt was answered and rejected, the identifiers
\* requested are exactly the candidate list: the raw, the raw with every
\* 'O' replaced by '0' iff the raw contains 'O', the raw with every '0'
\* replaced by 'O' iff the raw contains '0', both variants computed from
\* the raw; an identifier with both characters exchanged is not requested.
C6_ExhaustedSequence ==
    /\ (pc[1] \in {"reply_not_verified", "remove", "done", "crashed"}
          /\ reqs[1] # << >>
          /\ \A k \in 1..Len(reqs[1]) : Rejected(script[1][k]))
          => /\ reqs[1] = Candidates(tx_id[1])
             /\ HasBoth(tx_id[1]) => SwapBoth(tx_id[1]) \notin Range(reqs[1])
    /\ (vpc = "done" /\ \A k \in 1..Len(vreqs) : Rejected(script[1][k]))
          => /\ vreqs = Candidates(verify_tx_id)
             /\ HasBoth(verify_tx_id)
                   => SwapBoth(verify_tx_id) \notin Range(vreqs)

C6_Witness ==
    /\ pc[1] = "done" /\ vpc = "done"
    /\ HasBoth(tx_id[1])
    /\ \A k \in 1..3 : Rejected(script[1][k])
    /\ reqs[1] = Candidates(tx_id[1]) /\ Len(reqs[1]) = 3
    /\ "NotVerified" \in Texts(1) /\ vresult = "False"

\* C7: for a raw identifier with neither 'O' nor '0' never more than one
\* request is made, and exactly one has been made when the verification
\* has ended, whatever the endpoint answered.
C7_ExactlyOneAttempt ==
    /\ (Truthy(tx_id[1]) /\ ~Contains(tx_id[1], "O")
          /\ ~Contains(tx_id[1], "0"))
          => /\ Len(reqs[1]) <= 1
             /\ Terminal(1) => Len(reqs[1]) = 1
    /\ (Truthy(verify_tx_id) /\ ~Contains(verify_tx_id, "O")
          /\ ~Contains(verify_tx_id, "0"))
          => /\ Len(vreqs) <= 1
             /\ vpc = "done" => Len(vreqs) = 1

C7_Witness ==
    /\ pc[1] = "done" /\ vpc = "done"
    /\ tx_id[1] = << "A" >>
    /\ Len(reqs[1]) = 1 /\ Len(vreqs) = 1
    /\ Rejected(script[1][1])
    /\ "NotVerified" \in Texts(1)

\* outcome category of a message; "Processing" and "ViewUrl" carry none
Category(text) ==
    CASE text = "Valid" -> "success"
      [] text \in {"ValidO0", "Valid0O"} -> "success-with-correction"
      [] text = "NotVerified" -> "not-verified"
      [] text = "NoTxId" -> "no-identifier"
      [] text = "HttpError" -> "transport-error"
      [] OTHER -> "none"

Outcomes(r) == { Category(t) : t \in Texts(r) } \ {"none"}

\* C8: every run of handle_photo that has ended has sent the messages of
\* exactly one outcome category, and has sent not-verified only when every
\* candidate was requested and rejected.
C8_ExactlyOneOutcome ==
    /\ Terminal(1) => Cardinality(Outcomes(1)) = 1
    /\ "NotVerified" \in Texts(1)
          => /\ reqs[1] = Candidates(tx_id[1])
             /\ \A k \in 1..Len(reqs[1]) : Rejected(script[1][k])

\* C9: when a run of handle_photo has ended, however it ended, the file it
\* downloaded does not exist any more.
C9_FileDeleted ==
    Terminal(1) => files[file_path(1)] = NoFile

LetterPairs ==
    { << Uppers[k], Lowers[k] >> : k \in 1..Len(Uppers) }
    \cup { << Lowers[k], Uppers[k] >> : k \in 1..Len(Uppers) }

\* the same letter, whatever its case
SameLetter(a, b) == a = b \/ << a, b >> \in LetterPairs

\* the label, in any case, stands in t from position i on
LabelAt(t, i) ==
    /\ i + Len(label) - 1 <= Len(t)
    /\ \A j \in 1..Len(label) : SameLetter(t[i + j - 1], label[j])

HasLabel(t) == \E i \in 1..Len(t) : LabelAt(t, i)

\* the text after the end of the first occurrence of the label
AfterLabel(t) ==
    LET i == CHOOSE i \in 1..Len(t) :
                 LabelAt(t, i) /\ \A j \in 1..(i - 1) : ~LabelAt(t, j)
    IN  SubSeq(t, i + Len(label), Len(t))

\* the first maximal run of characters of t that are no whitespace
FirstToken(t) ==
    LET lo == CHOOSE i \in 1..Len(t) :
                  ~IsSpace(t[i]) /\ \A j \in 1..(i - 1) : IsSpace(t[j])
        hi == CHOOSE i \in lo..Len(t) :
                  /\ \A j \in lo..i : ~IsSpace(t[j])
                  /\ i = Len(t) \/ IsSpace(t[i + 1])
    IN  SubSeq(t, lo, hi)

\* after the label there is a character that is no whitespace and no colon
TokenFollows(t) ==
    LET rest == AfterLabel(t)
    IN  \E i \in 1..Len(rest) : ~IsSpace(rest[i]) /\ rest[i] # ":"

\* C11: for a text that contains the label in any case, followed by a
\* token, extract_transaction_info (of bot.py and of telebirr.py) returns
\* the first whitespace-delimited token of the text after the end of the
\* first occurrence of the label, colons removed, in upper case.
C11_TokenAfterLabel ==
    (HasLabel(ocr_text) /\ TokenFollows(ocr_text))
      => LET token == Upper(FirstToken(RemoveColons(AfterLabel(ocr_text))))
         IN  /\ bot_result \in {Pending, token}
             /\ telebirr_result \in {Pending, token}

C11_Witness ==
    /\ ocr_text = << "a", ":", " " >> \o Lower(label) \o << ":", " ", "a" >>
    /\ bot_result = << "A" >>
    /\ telebirr_result = << "A" >>

\* C16: for a text without the label, and for a text where only whitespace
\* and colons follow the label, extract_transaction_info (of bot.py and of
\* telebirr.py) returns None and does not raise.
C16_NotFound ==
    (~HasLabel(ocr_text) \/ ~TokenFollows(ocr_text))
      => /\ bot_result \in {Pending, None}
         /\ telebirr_result \in {Pending, None}

C16_Witness ==
    /\ ocr_text = label \o << ":", " ", ":" >>
    /\ bot_result = None
    /\ telebirr_result = None

\* images on which OCR fails: the backend raises, returns nothing, returns
\* no pages, or returns pages whose text is all whitespace
OcrFailures == {OcrRaises, OcrNoResult, OcrNoPages, OnePage(<< >>)}

\* C12: whatever the cause of an OCR failure, process_image_for_txid returns
\* the no-identifier result (None, never an exception) in both modules, and
\* handle_photo then requests nothing and goes on to the no-identifier
\* reply, the only outcome message it sends.
C12_OcrFailureUniform ==
    photo[1].content \in OcrFailures
      => /\ tx_id[1] = None
         /\ verify_tx_id = None
         /\ reqs[1] = << >> /\ vreqs = << >>
         /\ pc[1] \in {"start", "reply_processing", "ocr", "reply_no_tx_id",
                       "remove", "done", "crashed"}
         /\ Outcomes(1) \subseteq {"no-identifier"}
         /\ pc[1] \in {"remove", "done"} => "NoTxId" \in Texts(1)

C12_Witness ==
    /\ photo[1].content = OcrRaises
    /\ pc[1] = "done"
    /\ Outcomes(1) = {"no-identifier"}

\* C13: a successful verification carries the variant that succeeded and
\* the URL built from it.  handle_photo's last message after its success
\* replies is the URL of the identifier requested last, and the success
\* message names the correction made; verify_telebirr_receipt's result for a
\* success after correction differs from its result for a success on the
\* raw identifier.
C13_ResultCarriesVariant ==
    /\ (pc[1] \in {"remove", "remove_O0", "remove_0O", "done"}
          /\ Texts(1) \cap {"Valid", "ValidO0", "Valid0O"} # {})
          => /\ msgs[1][Len(msgs[1])] =
                   Message("ViewUrl", reqs[1][Len(reqs[1])])
             /\ Accepted(script[1][Len(reqs[1])])
             /\ msgs[1][Len(msgs[1]) - 1].text =
                   (IF Len(reqs[1]) = 1 THEN "Valid"
                    ELSE IF reqs[1][Len(reqs[1])]
                              = Replace(tx_id[1], "O", "0")
                         THEN "ValidO0" ELSE "Valid0O")
    /\ (vpc = "done" /\ Accepted(script[1][Len(vreqs)]) /\ Len(vreqs) > 1)
          => vresult # verify_return_raw

\* C14: an answered attempt is a success exactly when the status is 200 and
\* the body holds the marker.  After such an answer handle_photo is on its
\* success path and verify_telebirr_receipt has returned True; after any
\* other answer (200 without the marker, another status with the marker)
\* the next candidate is about to be requested, or, when there is none,
\* the verification ends not verified; it is never taken for a transport
\* error.
C14_SuccessIffStatusAndMarker ==
    /\ reqs[1] # << >> =>
          LET n == Len(reqs[1])
              resp == script[1][n]
          IN  /\ Accepted(resp) =>
                    /\ pc[1] \in {"reply_valid", "reply_valid_O0",
                                  "reply_valid_0O", "reply_url",
                                  "reply_url_O0", "reply_url_0O", "remove",
                                  "remove_O0", "remove_0O", "done", "crashed"}
                    /\ Outcomes(1) \subseteq
                          {"success", "success-with-correction"}
              /\ Rejected(resp) =>
                    /\ Outcomes(1) \subseteq {"not-verified"}
                    /\ IF n < Len(Candidates(tx_id[1]))
                       THEN pc[1] \in {"req_O0", "req_0O"}
                       ELSE pc[1] \in {"reply_not_verified", "remove",
                                       "done", "crashed"}
    /\ vreqs # << >> =>
          LET n == Len(vreqs)
              resp == script[1][n]
          IN  /\ Accepted(resp) => vpc = "done" /\ vresult = "True"
              /\ Rejected(resp) =>
                    IF n < Len(Candidates(verify_tx_id))
                    THEN vpc \in {"req_O0", "req_0O"} /\ vresult = "pending"
                    ELSE vpc = "done" /\ vresult = "False"

C14_Witness ==
    /\ pc[1] = "done" /\ vpc = "done"
    /\ Len(reqs[1]) = 3 /\ Len(vreqs) = 3
    /\ script[1][1] =
          [kind |-> "response", status_code |-> 200, marker |-> FALSE]
    /\ script[1][2] =
          [kind |-> "response", status_code |-> 404, marker |-> TRUE]
    /\ Rejected(script[1][3])
    /\ Outcomes(1) = {"not-verified"} /\ vresult = "False"

\* the members of a sequence of sequences, one after another
RECURSIVE Flatten(_)
Flatten(seqs) ==
    IF seqs = << >> THEN << >> ELSE Head(seqs) \o Flatten(Tail(seqs))

\* the words of a line with one space before each word but the first
SpaceJoined(line) ==
    Flatten([k \in 1..Len(line) |->
                IF k = 1 THEN line[k] ELSE << " " >> \o line[k]])

\* C15: the extracted text is the concatenation, over the pages in document
\* order, their blocks in page order and their lines in block order, of
\* the line's words joined by single spaces and followed by one newline.
C15_Linearization ==
    full_text # Pending =>
        LET lines == Flatten(Flatten(document))
        IN  full_text =
              Flatten([i \in 1..Len(lines) |->
                          SpaceJoined(lines[i]) \o << "\n" >>])

C15_Witness ==
    /\ document = << << << << << "a" >> >>, << << "b", "c" >>, << "d" >> >> >> >> >>
    /\ full_text = << "a", "\n", "b", "c", " ", "d", "\n" >>

\* the verification of handle_photo is over: it has requested something and
\* is not about to request more
BotVerified == reqs[1] # << >> /\ pc[1] \notin {"req_O0", "req_0O"}

\* C17: against the same endpoint answers, handle_photo and
\* verify_telebirr_receipt request the same identifiers in the same order,
\* and verify_telebirr_receipt returns True exactly when handle_photo takes
\* its success or success-with-correction replies.
C17_ImplementationsAgree ==
    /\ IsPrefix(reqs[1], vreqs) \/ IsPrefix(vreqs, reqs[1])
    /\ (BotVerified /\ vpc = "done") =>
          /\ reqs[1] = vreqs
          /\ (pc[1] \in {"reply_valid", "reply_valid_O0", "reply_valid_0O"}
                \/ Outcomes(1) \cap {"success", "success-with-correction"}
                      # {})
                => vresult = "True"
          /\ (pc[1] \in {"reply_not_verified", "reply_error"}
                \/ Outcomes(1) \cap {"not-verified", "transport-error"} # {})
                => vresult = "False"
          /\ (pc[1] = "done" /\ vresult = "True")
                => Outcomes(1) \subseteq {"success", "success-with-correction"}

C17_Witness ==
    /\ pc[1] = "done" /\ vpc = "done"
    /\ Len(reqs[1]) = 3 /\ reqs[1] = vreqs
    /\ Outcomes(1) = {"success-with-correction"}
    /\ vresult = "True"

\* C18: one verification makes at most three requests, and no identifier
\* is requested twice.
C18_DistinctRequests ==
    /\ Len(reqs[1]) <= 3
    /\ \A i, j \in 1..Len(reqs[1]) : i # j => reqs[1][i] # reqs[1][j]
    /\ Len(vreqs) <= 3
    /\ \A i, j \in 1..Len(vreqs) : i # j => vreqs[i] # vreqs[j]

C18_Witness ==
    /\ pc[1] = "reply_error" /\ vpc = "done"
    /\ Len(reqs[1]) = 3 /\ Len(vreqs) = 3
    /\ Cardinality(Range(reqs[1])) = 3
    /\ script[1][3].kind = "RequestException"

\* an identifier that may stand in a request URL: not empty, and without
\* whitespace, colon or lower-case letter
WellFormed(id) ==
    /\ id # << >> /\ id # None
    /\ \A i \in 1..Len(id) :
          /\ ~IsSpace(id[i])
          /\ id[i] # ":"
          /\ id[i] \notin Range(Lowers)

\* C19: handle_photo requests only after extraction gave an identifier; a
\* run that takes the no-identifier reply has requested nothing; and every
\* identifier requested is well formed.
C19_RequestsNeedIdentifier ==
    /\ reqs[1] # << >> => Truthy(tx_id[1])
    /\ (pc[1] = "reply_no_tx_id" \/ "NoTxId" \in Texts(1))
          => reqs[1] = << >>
    /\ \A i \in 1..Len(reqs[1]) : WellFormed(reqs[1][i])

C19_Witness ==
    /\ photo[1].content = OnePage(LabelWords \o << << ":", "a" >> >>)
    /\ pc[1] = "done"
    /\ reqs[1] = << << "A" >> >>

====
